---- MODULE Spec2Model ----
(***************************************************************************)
(* OpenAIRealtimeClient (custom_components/openai_realtime/                *)
(* realtime_client.py) as a state machine.                                 *)
(*                                                                         *)
(* The client is a set of asyncio coroutines on one event loop: the        *)
(* callers of the public methods and the receive task(s) created by        *)
(* connect().  A coroutine runs without interruption from one await that   *)
(* really suspends to the next, so every action below is the block of      *)
(* code between two such awaits.  The awaits are: websockets.connect,      *)
(* ws.send (inside _send_event), the next frame of `async for`, awaiting   *)
(* the receive task, and ws.close.  ws.send puts the frame on the wire     *)
(* and then may wait for the write buffer to drain, so a step ends right   *)
(* after the frame was written.  _send_event with _ws None returns         *)
(* without awaiting anything, so such a step runs on.                      *)
(***************************************************************************)
EXTENDS Naturals, Sequences, FiniteSets, TLC

\* ------------------------------------------------------------------ bounds
MaxTransports == 2      \* transports websockets.connect may open in a run
MaxInbox == 2           \* frames in flight per transport when no send waits
MaxInboxWaiting == 1    \* frames in flight per transport when sends may wait
MaxObserved == 1        \* kinds of event that get an observer in a run
MaxBytes == 3           \* length of a byte string given to the codec
MaxQueue == 2           \* items in a provider's queue, with the frames in flight
MaxCalls == 2           \* calls of one provider that get to their request

\* --------------------------------------------------------- wire constants
EVENT_TYPE_SESSION_UPDATE == "session.update"
EVENT_TYPE_INPUT_AUDIO_BUFFER_APPEND == "input_audio_buffer.append"
EVENT_TYPE_INPUT_AUDIO_BUFFER_COMMIT == "input_audio_buffer.commit"
EVENT_TYPE_INPUT_AUDIO_BUFFER_CLEAR == "input_audio_buffer.clear"
EVENT_TYPE_RESPONSE_CREATE == "response.create"
EVENT_TYPE_RESPONSE_CANCEL == "response.cancel"
EVENT_TYPE_CONVERSATION_ITEM_CREATE == "conversation.item.create"

EVENT_RESPONSE_CREATED == "response.created"
EVENT_TYPE_RESPONSE_DONE == "response.done"
EVENT_TYPE_RESPONSE_AUDIO_DELTA == "response.output_audio.delta"
EVENT_TYPE_RESPONSE_AUDIO_TRANSCRIPT_DELTA == "response.output_audio_transcript.delta"
EVENT_TYPE_INPUT_AUDIO_BUFFER_SPEECH_STARTED == "input_audio_buffer.speech_started"
EVENT_TYPE_INPUT_AUDIO_BUFFER_SPEECH_STOPPED == "input_audio_buffer.speech_stopped"
EVENT_ERROR == "error"
EVENT_SESSION_CREATED == "session.created"

\* ------------------------------------------------------------------ base64
\* Text is a sequence of character codes: 0..63 the base64 alphabet in its
\* order (A is 0, E is 4, C is 2), PAD the '=' sign.
PAD == 64

RECURSIVE b64encode(_)
b64encode(b) ==
    IF Len(b) = 0 THEN <<>>
    ELSE IF Len(b) = 1 THEN
        <<b[1] \div 4, (b[1] % 4) * 16, PAD, PAD>>
    ELSE IF Len(b) = 2 THEN
        <<b[1] \div 4, (b[1] % 4) * 16 + b[2] \div 16, (b[2] % 16) * 4, PAD>>
    ELSE
        <<b[1] \div 4, (b[1] % 4) * 16 + b[2] \div 16,
          (b[2] % 16) * 4 + b[3] \div 64, b[3] % 64>>
        \o b64encode(SubSeq(b, 4, Len(b)))

\* A decoder that takes the characters of the text for the bytes.
C16_b64decode_characters(s) == [ok |-> TRUE, bytes |-> s]

\* b64decode(s): [ok, bytes]; ok FALSE is binascii.Error (incorrect padding).
RECURSIVE b64decode(_)
b64decode(s) ==
    IF Len(s) = 0 THEN [ok |-> TRUE, bytes |-> <<>>]
    ELSE IF Len(s) < 4 \/ s[1] = PAD \/ s[2] = PAD THEN [ok |-> FALSE, bytes |-> <<>>]
    ELSE IF s[3] = PAD THEN
        IF Len(s) = 4 /\ s[4] = PAD
        THEN [ok |-> TRUE, bytes |-> <<s[1] * 4 + s[2] \div 16>>]
        ELSE [ok |-> FALSE, bytes |-> <<>>]
    ELSE IF s[4] = PAD THEN
        IF Len(s) = 4
        THEN [ok |-> TRUE,
              bytes |-> <<s[1] * 4 + s[2] \div 16, (s[2] % 16) * 16 + s[3] \div 4>>]
        ELSE [ok |-> FALSE, bytes |-> <<>>]
    ELSE
        LET rest == b64decode(SubSeq(s, 5, Len(s)))
        IN  [ok |-> rest.ok,
             bytes |-> <<s[1] * 4 + s[2] \div 16, (s[2] % 16) * 16 + s[3] \div 4,
                         (s[3] % 4) * 64 + s[4]>> \o rest.bytes]

\* ------------------------------------------------------------ the inputs
Callers == {"c1", "c2"}                 \* coroutines calling the public methods
Transports == 1..MaxTransports          \* handles websockets.connect returns, in order
Tasks == Transports                     \* the receive task created with handle k
None == 0                               \* Python's None for a handle or a task

AudioChunks == {<<0, 1, 2>>}            \* audio_data of send_audio
Bytes == {0, 1, 2, 255}                 \* values of one byte of audio
ByteStrings == UNION {[1..n -> Bytes] : n \in 0..MaxBytes}
Texts == {<<7, 8>>}                     \* text of send_text, as character codes
CallbackIds == {"f", "g"}               \* callables given to the setters
Kinds == {"audio", "transcript", "response_done", "speech_started", "speech_stopped"}

\* Inbound frames.  json FALSE: json.loads raises.  delta <<>>: the key is
\* absent or its text is empty (data.get("delta") is falsy).  <<0, 0, 4>> is
\* base64 text with incorrect padding; session.created is a type
\* _handle_message has no branch for.
Frame(type, delta) == [json |-> TRUE, type |-> type, delta |-> delta]
Frames ==
    { Frame(EVENT_RESPONSE_CREATED, <<>>),
      Frame(EVENT_TYPE_RESPONSE_AUDIO_DELTA, <<0, 0, 4, 2>>),
      Frame(EVENT_TYPE_RESPONSE_AUDIO_DELTA, <<>>),
      Frame(EVENT_TYPE_RESPONSE_AUDIO_DELTA, <<0, 0, 4>>),
      Frame(EVENT_TYPE_RESPONSE_AUDIO_TRANSCRIPT_DELTA, <<7, 8>>),
      Frame(EVENT_TYPE_RESPONSE_DONE, <<>>),
      Frame(EVENT_TYPE_INPUT_AUDIO_BUFFER_SPEECH_STARTED, <<>>),
      Frame(EVENT_TYPE_INPUT_AUDIO_BUFFER_SPEECH_STOPPED, <<>>),
      Frame(EVENT_ERROR, <<>>),
      Frame(EVENT_SESSION_CREATED, <<>>),
      [json |-> FALSE, type |-> "", delta |-> <<>>] }

\* Outbound commands, as _send_event gets them.
Cmd(type, data) == [type |-> type, data |-> data]
UpdateSession == Cmd(EVENT_TYPE_SESSION_UPDATE, <<>>)
AppendAudio(text) == Cmd(EVENT_TYPE_INPUT_AUDIO_BUFFER_APPEND, text)
CommitAudio == Cmd(EVENT_TYPE_INPUT_AUDIO_BUFFER_COMMIT, <<>>)
ClearAudioBuffer == Cmd(EVENT_TYPE_INPUT_AUDIO_BUFFER_CLEAR, <<>>)
CreateResponse == Cmd(EVENT_TYPE_RESPONSE_CREATE, <<>>)
CancelResponse == Cmd(EVENT_TYPE_RESPONSE_CANCEL, <<>>)
CreateConversationItem(text) == Cmd(EVENT_TYPE_CONVERSATION_ITEM_CREATE, text)

\* ---------------------------------------------------------------- state
VARIABLES
    ws,                     \* self._ws: a handle, or None
    connected,              \* self._connected
    receive_task,           \* self._receive_task: a task, or None
    has_active_response,    \* self._has_active_response
    callbacks,              \* the five self._*_callback slots, by kind
    transport,              \* every handle's connection: state, frames in flight, end
    sent,                   \* per handle, what was written to it (history)
    caller,                 \* per caller: the call in progress
    task,                   \* per receive task: where _receive_messages stands
    last,                   \* the call or dispatch that ended in the last step (history)
    mode,                   \* how the event loop schedules (fixed by Init)
    adapter                 \* per provider (stt.py, tts.py): its queue and its call

vars == <<ws, connected, receive_task, has_active_response, callbacks,
          transport, sent, caller, task, last, mode, adapter>>

NoFrame == [json |-> FALSE, type |-> "none", delta |-> <<>>]

\* A caller between calls.  op: the method called; a0, h0: Active and
\* _has_active_response when the call was made; c0: _connected then (kept for
\* connect and disconnect); t0: the task disconnect() cancelled and awaits;
\* out: the commands the call wrote to the wire; exc: the call raised; new:
\* the handle the call opened; arg: the audio_data or text the call was given;
\* outer: the provider whose method made the call ("none": the call was made
\* from outside).
IdleRec ==
    [op |-> "none", pc |-> "idle", c0 |-> FALSE, a0 |-> FALSE, h0 |-> FALSE,
     out |-> <<>>, exc |-> FALSE, new |-> None, t0 |-> None, arg |-> <<>>,
     outer |-> "none"]

\* A task not yet created.  tws: the handle `async for` iterates; cancel:
\* Task.cancel() was called; frame, h0, a0, notes, out: the frame being
\* handled, _has_active_response and Active when its handling began, the
\* observer calls made and the commands written for it.
NoTask ==
    [st |-> "none", tws |-> None, cancel |-> FALSE, frame |-> NoFrame,
     h0 |-> FALSE, a0 |-> FALSE, notes |-> <<>>, out |-> <<>>]

\* Nothing ended in the last step.  kind "call": a public method returned
\* (or raised); kind "dispatch": _handle_message returned; kind "set": a
\* setter returned, op the kind of event and notes the callback it was given.
NoLast ==
    [kind |-> "none", op |-> "none", c0 |-> FALSE, a0 |-> FALSE, h0 |-> FALSE,
     out |-> <<>>, exc |-> FALSE, new |-> None, t0 |-> None, arg |-> <<>>,
     frame |-> NoFrame, notes |-> <<>>]

NoTransport == [st |-> "unopened", inbox |-> <<>>, eof |-> "none", closes |-> 0]

\* What was written to a handle (history).  first: the first command;
\* updates: how many session.update; asked: where the last response.create
\* stands: "written", "answered" (the remote sent a response.done after it),
\* "refused" (the remote sent an error after it),
\* "done" (that response.done was handled, and since then no response.create
\* was written and no response.created handled), "unclear" (it was written
\* while the one before it had no answer yet); ahead: the frames still to be
\* read up to and including the answer; creates: the response.create written
\* since the response last became inactive (a response.done was handled or
\* cancel_response() cleared the flag), counted up to 2; created: a
\* response.created was handled since the response last became inactive;
\* cancelled: cancel_response() sent response.cancel for the response asked
\* for, whose response.done was not handled yet.  asked "second": the
\* response.create was written after such a cancel, so the next
\* response.done of the remote (ahead: where it is) is the one of the
\* cancelled response; cancels: the response.cancel written since the last
\* response.create was written or response.created handled, counted up to 2.
\* asked, ahead, creates, created, cancelled and cancels are kept in the
\* modes "responses", "answers" and "adapters" only.
NoSent ==
    [first |-> "none", updates |-> 0, asked |-> "none", ahead |-> 0, creates |-> 0,
     created |-> FALSE, cancelled |-> FALSE, cancels |-> 0]

\* The providers that share the client: OpenAIRealtimeSTTProvider (stt.py)
\* and OpenAIRealtimeTTSProvider (tts.py).  A provider's name also names the
\* callbacks its call gives to the client.
Adapters == {"stt", "tts"}

\* A provider as __init__ leaves it.  queue: self._transcript_queue or
\* self._audio_queue, an item being a text or chunk (done FALSE) or the None
\* that signals completion (done TRUE), with the value of sends when it was
\* put (history); sends: the calls that got to commit_audio() or
\* send_text(), counted up to MaxCalls; got: transcript_parts or audio_chunks
\* of the newest call holds something; stale: the None the last call took
\* was put before that call got to its commit_audio() or send_text()
\* (history).
NoAdapter == [queue |-> <<>>, sends |-> 0, got |-> FALSE, stale |-> FALSE]

\* connected (the property): self._connected and self._ws is not None.
connected_property == connected /\ ws # None

\* The Connection is Active: connected, and the handle's connection is open.
Active == connected_property /\ transport[ws].st = "open"

\* The client as __init__ leaves it, before any connection was opened.
Start ==
    /\ ws = None
    /\ connected = FALSE
    /\ receive_task = None
    /\ has_active_response = FALSE
    /\ callbacks = [k \in Kinds |-> "None"]
    /\ transport = [k \in Transports |-> NoTransport]
    /\ sent = [k \in Transports |-> NoSent]
    /\ caller = [p \in Callers |-> IdleRec]
    /\ task = [t \in Tasks |-> NoTask]
    /\ last = NoLast
    /\ adapter = [a \in Adapters |-> NoAdapter]

\* One caller at a time, and every send may wait.
Init == Start /\ mode = "one_caller"

\* One caller at a time, and no send waits.
InitSeq == Start /\ mode = "sequential"

\* Any caller calls at any time, and every send may wait.
InitConcurrent == Start /\ mode = "concurrent"

\* One caller at a time, every send may wait; audio of every content.
InitCodec == Start /\ mode = "codec"

\* Any caller calls at any time, every send may wait; the frames are those
\* about responses, and the history of the response.create is kept.
InitResponses == Start /\ mode = "responses"

Tracked == mode \in {"responses", "answers", "adapters"}

\* One caller at a time, every send may wait; the remote sends one frame
\* for every response.create it gets, a response.done or an error, and the
\* history of the response.create is kept.
InitAnswers == Start /\ mode = "answers"

\* Any caller calls at any time; connections are made and ended.
InitConnects == Start /\ mode = "connects"

\* The providers' methods are called one after the other; every send may
\* wait; the remote sends text, audio and one response.done for every
\* response.create it gets, and the history of the response.create is kept.
InitAdapters == Start /\ mode = "adapters"

\* ------------------------------------------------------------ scheduling
\* The program points inside `await self._ws.send(...)`.
SendPcs == {"update_sent", "append_sent", "commit_sent", "create_sent",
            "item_sent", "cancel_sent", "clear_sent"}

\* mode "sequential": no send has to wait, so nothing else runs while a
\* coroutine is inside one.  mode "one_caller" and "sequential": the public
\* methods are called one after the other.  mode "concurrent": any caller
\* calls at any time and every send may wait.
CallerMayRun(p) ==
    mode = "sequential" =>
        /\ \A q \in Callers \ {p} : caller[q].pc \notin SendPcs
        /\ \A t \in Tasks : task[t].st \notin SendPcs

TaskMayRun(t) ==
    mode = "sequential" =>
        /\ \A q \in Callers : caller[q].pc \notin SendPcs
        /\ \A u \in Tasks \ {t} : task[u].st \notin SendPcs

EnvMayRun ==
    mode = "sequential" =>
        /\ \A q \in Callers : caller[q].pc \notin SendPcs
        /\ \A u \in Tasks : task[u].st \notin SendPcs

MayCall(p) ==
    /\ caller[p].pc = "idle"
    /\ CallerMayRun(p)
    /\ mode \notin {"concurrent", "responses", "connects"} => p = "c1"

\* What the callers and the remote pick from.  mode "codec": audio of every
\* content, out and in (the frames are the audio deltas a remote encodes).
AudioData == IF mode = "codec" THEN ByteStrings ELSE AudioChunks

Inbound ==
    IF mode = "codec"
    THEN {Frame(EVENT_TYPE_RESPONSE_AUDIO_DELTA, b64encode(b)) : b \in ByteStrings}
    ELSE IF mode = "responses"
    THEN {Frame(EVENT_RESPONSE_CREATED, <<>>), Frame(EVENT_TYPE_RESPONSE_DONE, <<>>),
          Frame(EVENT_TYPE_INPUT_AUDIO_BUFFER_SPEECH_STARTED, <<>>)}
    ELSE IF mode = "answers"
    THEN {Frame(EVENT_TYPE_RESPONSE_DONE, <<>>), Frame(EVENT_ERROR, <<>>)}
    ELSE IF mode = "adapters"
    THEN {Frame(EVENT_TYPE_RESPONSE_AUDIO_DELTA, <<0, 0, 4, 2>>),
          Frame(EVENT_TYPE_RESPONSE_AUDIO_TRANSCRIPT_DELTA, <<7, 8>>),
          Frame(EVENT_TYPE_RESPONSE_DONE, <<>>)}
    ELSE Frames

\* How many frames the remote may have in flight on one connection.
InboxBound == IF mode = "sequential" THEN MaxInbox ELSE MaxInboxWaiting

\* The record of a call being made now.
Snap(op) ==
    [op |-> op, pc |-> "idle",
     c0 |-> connected /\ op \in {"connect", "disconnect"},
     a0 |-> Active, h0 |-> has_active_response, out |-> <<>>, exc |-> FALSE,
     new |-> None, t0 |-> None, arg |-> <<>>, outer |-> "none"]

\* The call whose record is rec returns (or raises) in this step.
Returned(rec) ==
    [kind |-> "call", op |-> rec.op, c0 |-> rec.c0, a0 |-> rec.a0, h0 |-> rec.h0,
     out |-> rec.out, exc |-> rec.exc, new |-> rec.new, t0 |-> rec.t0,
     arg |-> rec.arg, frame |-> NoFrame, notes |-> <<>>]

\* The handling of the frame in the task record rec ends in this step.
Dispatched(rec) ==
    [kind |-> "dispatch", op |-> "handle_message", c0 |-> FALSE, a0 |-> rec.a0,
     h0 |-> rec.h0, out |-> rec.out, exc |-> FALSE, new |-> None, t0 |-> None,
     arg |-> <<>>, frame |-> rec.frame, notes |-> rec.notes]

\* The call whose record is rec was made by a provider's method and raised:
\* the method's except clause returns the error result.
Refused(rec) == rec.outer # "none" /\ rec.exc

\* The caller's record once the call whose record is rec returned: between
\* calls, or back in the provider's method that made the call, which goes on
\* after its `await self.client.connect()` ("connected"), its
\* `await self.client.send_audio(chunk)` ("streamed"), or its
\* `await self.client.commit_audio()` or `await self.client.send_text(message)`
\* ("waiting").
After(rec) ==
    IF rec.outer = "none" \/ Refused(rec) THEN IdleRec
    ELSE [IdleRec EXCEPT !.op = rec.outer,
                         !.pc = IF rec.op = "connect" THEN "connected"
                                ELSE IF rec.op = "send_audio" THEN "streamed"
                                ELSE "waiting"]

\* Caller p's record goes on as rec; a record whose pc is "ret" has returned.
Goes(p, rec) ==
    /\ caller' = [caller EXCEPT ![p] = IF rec.pc = "ret" THEN After(rec) ELSE rec]
    /\ last' = IF rec.pc # "ret" THEN NoLast
               ELSE IF Refused(rec)
                    THEN Returned([IdleRec EXCEPT !.op = rec.outer, !.exc = TRUE])
               ELSE Returned(rec)

\* ------------------------------------------------------- outbound commands
\* The running state of a method body: pc where it stands ("entry" at the
\* call, "ret" once it returned), out what it wrote so far, sent the wire
\* history, har self._has_active_response.
Body(out) == [pc |-> "entry", out |-> out, sent |-> sent, har |-> has_active_response]

\* The history of one handle after command c was written to it.
Wrote(h, c) ==
    [first |-> IF h.first = "none" THEN c.type ELSE h.first,
     updates |-> IF c.type = EVENT_TYPE_SESSION_UPDATE /\ h.updates < 2
                 THEN h.updates + 1 ELSE h.updates,
     asked |-> IF c.type # EVENT_TYPE_RESPONSE_CREATE \/ ~Tracked THEN h.asked
               ELSE IF h.asked \in {"none", "done"} THEN "written"
               ELSE IF h.cancelled THEN "second" ELSE "unclear",
     ahead |-> IF c.type = EVENT_TYPE_RESPONSE_CREATE /\ ~h.cancelled THEN 0 ELSE h.ahead,
     cancelled |-> IF c.type = EVENT_TYPE_RESPONSE_CREATE THEN FALSE ELSE h.cancelled,
     creates |-> IF c.type = EVENT_TYPE_RESPONSE_CREATE /\ Tracked /\ h.creates < 2
                 THEN h.creates + 1 ELSE h.creates,
     created |-> h.created,
     cancels |-> IF ~Tracked THEN h.cancels
                 ELSE IF c.type = EVENT_TYPE_RESPONSE_CREATE THEN 0
                 ELSE IF c.type = EVENT_TYPE_RESPONSE_CANCEL /\ h.cancels < 2
                      THEN h.cancels + 1
                 ELSE h.cancels]

\* The history of one handle once the response became inactive.
Inactive(h) == IF Tracked THEN [h EXCEPT !.creates = 0, !.created = FALSE] ELSE h

\* The history of one handle once cancel_response() cleared the flag.
Cancelled(h) ==
    IF Tracked
    THEN [Inactive(h) EXCEPT !.cancelled = h.asked \in {"written", "answered"}]
    ELSE h

\* The history of one handle after the remote put frame f behind inbox.
Answered(h, f, inbox) ==
    IF Tracked /\ f.json /\ f.type = EVENT_TYPE_RESPONSE_DONE /\ h.asked = "written"
    THEN [h EXCEPT !.asked = "answered", !.ahead = Len(inbox) + 1]
    ELSE IF /\ Tracked /\ f.json /\ f.type = EVENT_TYPE_RESPONSE_DONE
            /\ h.asked = "second" /\ h.ahead = 0
    THEN [h EXCEPT !.ahead = Len(inbox) + 1]
    ELSE IF Tracked /\ f.json /\ f.type = EVENT_ERROR /\ h.asked = "written"
    THEN [h EXCEPT !.asked = "refused"]
    ELSE h

\* The history of one handle after frame f was read from it.
Took(h, f) ==
    LET g == IF f.json /\ f.type = EVENT_TYPE_RESPONSE_DONE THEN Inactive(h)
             ELSE IF Tracked /\ f.json /\ f.type = EVENT_RESPONSE_CREATED
                  THEN [h EXCEPT !.created = TRUE, !.cancels = 0]
             ELSE h
    IN  IF g.ahead > 1 THEN [g EXCEPT !.ahead = @ - 1]
        ELSE IF g.ahead = 1
             THEN [g EXCEPT !.asked = IF @ = "second" THEN "unclear" ELSE "done",
                            !.ahead = 0, !.cancelled = FALSE]
        ELSE IF Tracked /\ f.json /\ f.type = EVENT_RESPONSE_CREATED /\ g.asked = "done"
             THEN [g EXCEPT !.asked = "none"]
        ELSE g

\* _send_event(event) with self._ws = w: nothing without a handle; ws.send
\* raises on a connection that is not open and the exception is logged.
send_event(w, tr, S, c) ==
    IF w = None THEN S
    ELSE IF tr[w].st = "open"
         THEN [S EXCEPT !.out = Append(@, c), !.sent[w] = Wrote(@, c)]
         ELSE S

\* cancel_response(), from the call to the first send that suspends.
cancel_response_entry(S) ==
    IF ~connected THEN [S EXCEPT !.pc = "ret"]
    ELSE IF S.har THEN
        IF ws = None THEN [S EXCEPT !.pc = "ret", !.har = FALSE]
        ELSE [send_event(ws, transport, S, CancelResponse)
                EXCEPT !.pc = "cancel_sent"]
    ELSE
        IF ws = None THEN [S EXCEPT !.pc = "ret"]
        ELSE [send_event(ws, transport, S, ClearAudioBuffer)
                EXCEPT !.pc = "clear_sent"]

\* cancel_response() that forgets to clear the flag after response.cancel.
C6_cancel_response_keeps_flag(S) ==
    IF ws = None THEN [S EXCEPT !.pc = "ret"]
    ELSE [send_event(ws, transport, S, ClearAudioBuffer) EXCEPT !.pc = "clear_sent"]

\* cancel_response(), after the response.cancel send returned.
cancel_response_after_cancel(S) ==
    IF ws = None THEN [S EXCEPT !.pc = "ret", !.har = FALSE]
    ELSE [send_event(ws, transport,
                     [S EXCEPT !.har = FALSE, !.sent[ws] = Cancelled(@)],
                     ClearAudioBuffer)
            EXCEPT !.pc = "clear_sent"]

cancel_response(S) ==
    IF S.pc = "entry" THEN cancel_response_entry(S)
    ELSE IF S.pc = "cancel_sent" THEN cancel_response_after_cancel(S)
    ELSE [S EXCEPT !.pc = "ret"]

\* commit_audio() asking for a response without looking at the flag.
C1_commit_audio_always_creates(S) ==
    IF ws = None THEN [S EXCEPT !.pc = "ret", !.har = TRUE]
    ELSE [send_event(ws, transport, S, CreateResponse) EXCEPT !.pc = "create_sent"]

\* commit_audio(): the request for a response, after the commit was sent.
commit_audio_after_commit(S) ==
    IF ~S.har THEN
        IF ws = None THEN [S EXCEPT !.pc = "ret", !.har = TRUE]
        ELSE [send_event(ws, transport, S, CreateResponse)
                EXCEPT !.pc = "create_sent"]
    ELSE [S EXCEPT !.pc = "ret"]

commit_audio_entry(S) ==
    IF ~connected THEN [S EXCEPT !.pc = "ret"]
    ELSE IF ws = None THEN commit_audio_after_commit(S)
    ELSE [send_event(ws, transport, S, CommitAudio)
            EXCEPT !.pc = "commit_sent"]

commit_audio(S) ==
    IF S.pc = "entry" THEN commit_audio_entry(S)
    ELSE IF S.pc = "commit_sent" THEN commit_audio_after_commit(S)
    ELSE [S EXCEPT !.pc = "ret", !.har = TRUE]

\* send_text() with the test of the flag inverted.
C4_send_text_inverted_test(S) ==
    IF S.har THEN
        IF ws = None THEN [S EXCEPT !.pc = "ret", !.har = TRUE]
        ELSE [send_event(ws, transport, S, CreateResponse) EXCEPT !.pc = "create_sent"]
    ELSE [S EXCEPT !.pc = "ret"]

\* send_text(text): the request for a response, after the item was sent.
send_text_after_item(S) ==
    IF ~S.har THEN
        IF ws = None THEN [S EXCEPT !.pc = "ret", !.har = TRUE]
        ELSE [send_event(ws, transport, S, CreateResponse)
                EXCEPT !.pc = "create_sent"]
    ELSE [S EXCEPT !.pc = "ret"]

send_text_entry(S, text) ==
    IF ~connected THEN [S EXCEPT !.pc = "ret"]
    ELSE IF ws = None THEN send_text_after_item(S)
    ELSE [send_event(ws, transport, S, CreateConversationItem(text))
            EXCEPT !.pc = "item_sent"]

send_text(S, text) ==
    IF S.pc = "entry" THEN send_text_entry(S, text)
    ELSE IF S.pc = "item_sent" THEN send_text_after_item(S)
    ELSE [S EXCEPT !.pc = "ret", !.har = TRUE]

\* send_audio(audio_data)
send_audio(S, audio_data) ==
    IF S.pc = "entry" THEN
        IF ~connected \/ ws = None THEN [S EXCEPT !.pc = "ret"]
        ELSE [send_event(ws, transport, S,
                         AppendAudio(b64encode(audio_data)))
                EXCEPT !.pc = "append_sent"]
    ELSE [S EXCEPT !.pc = "ret"]

\* ------------------------------------------------- the callers' actions
\* A caller calls a method with argument arg, whose body ran to R.
CallWith(p, op, arg, R) ==
    /\ Goes(p, [Snap(op) EXCEPT !.pc = R.pc, !.out = R.out, !.arg = arg])
    /\ sent' = R.sent
    /\ has_active_response' = R.har
    /\ UNCHANGED <<ws, connected, receive_task, callbacks, transport, task, mode, adapter>>

\* A caller calls a method without arguments, whose body ran to R.
Call(p, op, R) == CallWith(p, op, <<>>, R)

\* A send of caller p returned and its method body ran on to R.
Resume(p, R) ==
    /\ Goes(p, [caller[p] EXCEPT !.pc = R.pc, !.out = R.out])
    /\ sent' = R.sent
    /\ has_active_response' = R.har
    /\ UNCHANGED <<ws, connected, receive_task, callbacks, transport, task, mode, adapter>>

In(p, op, pcs) == caller[p].op = op /\ caller[p].pc \in pcs /\ CallerMayRun(p)

Here(p) == [Body(caller[p].out) EXCEPT !.pc = caller[p].pc]

send_audio_call(p) ==
    /\ MayCall(p)
    /\ \E audio_data \in AudioData :
        CallWith(p, "send_audio", audio_data, send_audio(Body(<<>>), audio_data))

send_audio_resume(p) ==
    /\ In(p, "send_audio", {"append_sent"})
    /\ Resume(p, send_audio(Here(p), caller[p].arg))

commit_audio_call(p) ==
    /\ MayCall(p)
    /\ Call(p, "commit_audio", commit_audio(Body(<<>>)))

commit_audio_resume(p) ==
    /\ In(p, "commit_audio", {"commit_sent", "create_sent"})
    /\ Resume(p, commit_audio(Here(p)))

cancel_response_call(p) ==
    /\ MayCall(p)
    /\ Call(p, "cancel_response", cancel_response(Body(<<>>)))

cancel_response_resume(p) ==
    /\ In(p, "cancel_response", {"cancel_sent", "clear_sent"})
    /\ Resume(p, cancel_response(Here(p)))

send_text_call(p) ==
    /\ MayCall(p)
    /\ \E text \in Texts : CallWith(p, "send_text", text, send_text(Body(<<>>), text))

send_text_resume(p) ==
    /\ In(p, "send_text", {"item_sent", "create_sent"})
    /\ Resume(p, send_text(Here(p), caller[p].arg))

\* --------------------------------------------------- connect, disconnect
\* A handle no reference can reach any more: its connection is over, no task
\* that is still running reads it or was created with it, and no disconnect()
\* awaits that task.  (self._ws may still hold it: connect() overwrites it.)
Unused(k) ==
    /\ transport[k].st # "open"
    /\ task[k].st \in {"none", "done"}
    /\ \A t \in Tasks : task[t].st \in {"none", "done"} \/ task[t].tws # k
    /\ \A p \in Callers : ~(caller[p].pc = "await_task" /\ caller[p].t0 = k)

\* The handle the next successful websockets.connect returns: a new object,
\* named by the first unused number.
NextHandle ==
    IF \E k \in Transports : Unused(k)
    THEN CHOOSE k \in Transports : Unused(k) /\ \A j \in Transports : Unused(j) => k <= j
    ELSE None

\* _configure_session(): one session.update through _send_event.
configure_session(w, tr, S) == send_event(w, tr, S, UpdateSession)

\* connect() up to `await websockets.connect(...)`.
connect_call(p) ==
    /\ MayCall(p)
    /\ Goes(p, [Snap("connect") EXCEPT !.pc = IF connected THEN "ret" ELSE "connecting"])
    /\ UNCHANGED <<ws, connected, receive_task, has_active_response, callbacks,
                   transport, sent, task, mode, adapter>>

\* connect() from the return of websockets.connect with handle k to the send
\* of session.update; tr is the state of the connections by then.
connect_opened(p, k, tr) ==
    LET R == configure_session(k, tr, [Here(p) EXCEPT !.sent[k] = NoSent])
    IN  /\ transport' = tr
        /\ ws' = k
        /\ connected' = TRUE
        /\ receive_task' = k
        /\ task' = [task EXCEPT ![k] = [NoTask EXCEPT !.st = "created"]]
        /\ sent' = R.sent
        /\ Goes(p, [caller[p] EXCEPT !.pc = "update_sent", !.out = R.out, !.new = k])

\* websockets.connect returned a handle.  alive FALSE: the remote dropped the
\* connection before the coroutine was resumed, so the first send raises
\* inside _send_event.
connect_established(p) ==
    /\ In(p, "connect", {"connecting"})
    /\ NextHandle \in Transports
    /\ \E alive \in BOOLEAN :
        connect_opened(p, NextHandle,
            [transport EXCEPT ![NextHandle] =
                [NoTransport EXCEPT !.st = IF alive THEN "open" ELSE "closed",
                                    !.eof = IF alive THEN "none" ELSE "err"]])
    /\ UNCHANGED <<has_active_response, callbacks, mode, adapter>>

\* websockets.connect raised: the except clause of connect().
connect_failed(p) ==
    /\ In(p, "connect", {"connecting"})
    /\ connected' = FALSE
    /\ Goes(p, [caller[p] EXCEPT !.pc = "ret", !.exc = TRUE])
    /\ UNCHANGED <<ws, receive_task, has_active_response, callbacks, transport, sent,
                   task, mode, adapter>>

\* The send of session.update returned: connect() returns.
connect_return(p) ==
    /\ In(p, "connect", {"update_sent"})
    /\ Goes(p, [caller[p] EXCEPT !.pc = "ret"])
    /\ UNCHANGED <<ws, connected, receive_task, has_active_response, callbacks,
                   transport, sent, task, mode, adapter>>

\* ws.close() on a connection: frames not yet read are dropped.
Closed(c) ==
    [c EXCEPT !.st = "closed", !.inbox = <<>>, !.eof = IF @ = "none" THEN "ok" ELSE @,
              !.closes = IF @ < 2 THEN @ + 1 ELSE @]

\* disconnect() from `if self._ws:` on; rec is the caller's record so far.
disconnect_close(p, rec) ==
    IF ws # None
    THEN /\ transport' = [transport EXCEPT ![ws] = Closed(@)]
         /\ Goes(p, [rec EXCEPT !.pc = "closing"])
    ELSE /\ transport' = transport
         /\ Goes(p, [rec EXCEPT !.pc = "ret"])

\* disconnect() cancelling the task without awaiting it.
C8_disconnect_without_await(p, rec) ==
    /\ task' = IF receive_task # None /\ task[receive_task].st # "done"
               THEN [task EXCEPT ![receive_task].cancel = TRUE]
               ELSE task
    /\ receive_task' = None
    /\ disconnect_close(p, rec)

\* disconnect() from `if self._receive_task:` on: the task is cancelled and
\* awaited; awaiting a task that already ended does not suspend.
disconnect_stop_task(p, rec) ==
    IF receive_task # None /\ task[receive_task].st # "done" THEN
        /\ task' = [task EXCEPT ![receive_task].cancel = TRUE]
        /\ Goes(p, [rec EXCEPT !.pc = "await_task", !.t0 = receive_task])
        /\ UNCHANGED <<receive_task, transport>>
    ELSE
        /\ receive_task' = None
        /\ task' = task
        /\ disconnect_close(p, rec)

\* disconnect() up to its first await that suspends.
disconnect_call(p) ==
    /\ MayCall(p)
    /\ IF ~connected THEN
            /\ Goes(p, [Snap("disconnect") EXCEPT !.pc = "ret"])
            /\ UNCHANGED <<ws, connected, receive_task, transport, task>>
       ELSE
            /\ connected' = FALSE
            /\ ws' = ws
            /\ disconnect_stop_task(p, Snap("disconnect"))
    /\ UNCHANGED <<has_active_response, callbacks, sent, mode, adapter>>

\* The awaited receive task ended: disconnect() runs on to ws.close().
disconnect_task_done(p) ==
    /\ In(p, "disconnect", {"await_task"})
    /\ task[caller[p].t0].st = "done"
    /\ receive_task' = None
    /\ disconnect_close(p, caller[p])
    /\ UNCHANGED <<ws, connected, has_active_response, callbacks, sent, task, mode, adapter>>

\* ws.close() returned: disconnect() drops the handle and returns.
disconnect_closed(p) ==
    /\ In(p, "disconnect", {"closing"})
    /\ ws' = None
    /\ Goes(p, [caller[p] EXCEPT !.pc = "ret"])
    /\ UNCHANGED <<connected, receive_task, has_active_response, callbacks,
                   transport, sent, task, mode, adapter>>

\* ------------------------------------------------------------ the setters
\* The kinds of event that have an observer.
Observed == {k \in Kinds : callbacks[k] # "None"}

\* A set_*_callback(callback) call returned in this step.
WasSet(kind, callback) ==
    [NoLast EXCEPT !.kind = "set", !.op = kind,
                   !.notes = <<[kind |-> kind, cb |-> callback, arg |-> <<>>,
                                raised |-> FALSE]>>]

\* A setter that keeps the callback already registered.
C14_set_callback_keeps_first(p, kind) ==
    /\ MayCall(p)
    /\ kind \in Observed \/ Cardinality(Observed) < MaxObserved
    /\ \E callback \in CallbackIds :
        /\ callbacks' = IF callbacks[kind] = "None"
                        THEN [callbacks EXCEPT ![kind] = callback] ELSE callbacks
        /\ last' = WasSet(kind, callback)
    /\ UNCHANGED <<ws, connected, receive_task, has_active_response, transport, sent,
                   caller, task, mode, adapter>>

set_callback(p, kind) ==
    /\ MayCall(p)
    /\ kind \in Observed \/ Cardinality(Observed) < MaxObserved
    /\ \E callback \in CallbackIds :
        /\ callbacks' = [callbacks EXCEPT ![kind] = callback]
        /\ last' = WasSet(kind, callback)
    /\ UNCHANGED <<ws, connected, receive_task, has_active_response, transport, sent,
                   caller, task, mode, adapter>>

set_audio_callback(p) == set_callback(p, "audio")
set_transcript_callback(p) == set_callback(p, "transcript")
set_response_done_callback(p) == set_callback(p, "response_done")
set_speech_started_callback(p) == set_callback(p, "speech_started")
set_speech_stopped_callback(p) == set_callback(p, "speech_stopped")

\* ----------------------------------------------------------- the providers
\* The callbacks a call of provider a gives to the client.
SetCallbacks(a) ==
    [callbacks EXCEPT ![IF a = "stt" THEN "transcript" ELSE "audio"] = a,
                      !["response_done"] = a]

\* The method of provider a calls method op of the client with argument
\* arg, whose body ran to R.
Inner(p, a, op, arg, R) ==
    /\ Goes(p, [Snap(op) EXCEPT !.pc = R.pc, !.out = R.out, !.arg = arg, !.outer = a])
    /\ sent' = R.sent
    /\ has_active_response' = R.har
    /\ UNCHANGED <<ws, connected, receive_task, transport, task, mode>>

\* `if not self.client.connected: await self.client.connect()` in the
\* method of provider a, up to `await websockets.connect(...)`.
Connects(p, a) ==
    /\ Goes(p, [Snap("connect") EXCEPT !.pc = IF connected THEN "ret" ELSE "connecting",
                                       !.outer = a])
    /\ UNCHANGED <<ws, connected, receive_task, has_active_response, callbacks,
                   transport, sent, task, mode, adapter>>

\* async_process_audio_stream, from the new transcript_parts and callbacks
\* to the first `async for chunk in stream`.
Listens(p) ==
    /\ Goes(p, [Snap("stt") EXCEPT !.pc = "stream"])
    /\ callbacks' = SetCallbacks("stt")
    /\ adapter' = [adapter EXCEPT !["stt"].got = FALSE]
    /\ UNCHANGED <<ws, connected, receive_task, has_active_response, transport, sent,
                   task, mode>>

\* async_process_audio_stream(metadata, stream) is called.
async_process_audio_stream_call(p) ==
    /\ MayCall(p)
    /\ adapter["stt"].sends < MaxCalls
    /\ IF connected_property THEN Listens(p) ELSE Connects(p, "stt")

\* connect() returned to async_process_audio_stream.
stt_connected(p) ==
    /\ In(p, "stt", {"connected"})
    /\ Listens(p)

\* The stream yields a chunk: `await self.client.send_audio(chunk)`.
stt_send_audio(p) ==
    /\ In(p, "stt", {"stream"})
    /\ \E chunk \in AudioData :
        Inner(p, "stt", "send_audio", chunk, send_audio(Body(<<>>), chunk))
    /\ UNCHANGED <<callbacks, adapter>>

\* The stream ends: `await self.client.commit_audio()`.
stt_commit_audio(p) ==
    /\ In(p, "stt", {"stream", "streamed"})
    /\ Inner(p, "stt", "commit_audio", <<>>, commit_audio(Body(<<>>)))
    /\ adapter' = [adapter EXCEPT !["stt"].sends = @ + 1]
    /\ UNCHANGED callbacks

\* The queue of provider a yields its next item to a's waiting loop: the
\* None ends the loop and the method returns, with the error result when
\* fails.
Gets(p, a, fails) ==
    /\ In(p, a, {"waiting"})
    /\ adapter[a].queue # <<>>
    /\ LET item == Head(adapter[a].queue)
       IN  /\ adapter' = [adapter EXCEPT
                            ![a].queue = Tail(@),
                            ![a].stale = IF item.done THEN item.sends # adapter[a].sends
                                         ELSE @]
           /\ Goes(p, IF item.done THEN [caller[p] EXCEPT !.pc = "ret", !.exc = fails]
                      ELSE caller[p])
    /\ UNCHANGED <<ws, connected, receive_task, has_active_response, callbacks,
                   transport, sent, task, mode>>

\* asyncio.wait_for gives up on the empty queue of provider a after 30
\* seconds: the except asyncio.TimeoutError clause returns the error result.
TimesOut(p, a) ==
    /\ In(p, a, {"waiting"})
    /\ adapter[a].queue = <<>>
    /\ Goes(p, [caller[p] EXCEPT !.pc = "ret", !.exc = TRUE])
    /\ UNCHANGED <<ws, connected, receive_task, has_active_response, callbacks,
                   transport, sent, task, mode, adapter>>

\* `await asyncio.wait_for(self._transcript_queue.get(), timeout=30.0)`
\* returns an item; after the None the result is SUCCESS.
stt_get(p) == Gets(p, "stt", FALSE)

stt_timeout(p) == TimesOut(p, "stt")

\* async_get_tts_audio, from the new audio_chunks and callbacks to the
\* first send of `await self.client.send_text(message)`.
Speaks(p) ==
    /\ \E message \in Texts :
        Inner(p, "tts", "send_text", message, send_text(Body(<<>>), message))
    /\ callbacks' = SetCallbacks("tts")
    /\ adapter' = [adapter EXCEPT !["tts"].got = FALSE, !["tts"].sends = @ + 1]

\* async_get_tts_audio(message, language, options) is called.
async_get_tts_audio_call(p) ==
    /\ MayCall(p)
    /\ adapter["tts"].sends < MaxCalls
    /\ IF connected_property THEN Speaks(p) ELSE Connects(p, "tts")

\* connect() returned to async_get_tts_audio.
tts_connected(p) ==
    /\ In(p, "tts", {"connected"})
    /\ Speaks(p)

\* `await asyncio.wait_for(self._audio_queue.get(), timeout=30.0)` returns
\* an item; after the None the result is the audio collected, or the error
\* result if audio_chunks is empty.
tts_get(p) == Gets(p, "tts", ~adapter["tts"].got)

tts_timeout(p) == TimesOut(p, "tts")

\* ------------------------------------------------------------- the remote
\* The remote's next frame arrives on an open connection.
remote_frame(k) ==
    /\ EnvMayRun
    /\ transport[k].st = "open"
    /\ Len(transport[k].inbox) < InboxBound
    /\ mode \in {"answers", "adapters"} => sent[k].asked = "written"
    /\ mode = "adapters" =>
        \A a \in Adapters : Len(adapter[a].queue) + Len(transport[k].inbox) < MaxQueue
    /\ \E f \in Inbound :
        /\ transport' = [transport EXCEPT ![k].inbox = Append(@, f)]
        /\ sent' = [sent EXCEPT ![k] = Answered(@, f, transport[k].inbox)]
    /\ last' = NoLast
    /\ UNCHANGED <<ws, connected, receive_task, has_active_response, callbacks,
                   caller, task, mode, adapter>>

\* The remote ends the connection: with a close frame ("ok") or not ("err").
remote_close(k) ==
    /\ EnvMayRun
    /\ transport[k].st = "open"
    /\ \E how \in {"ok", "err"} :
        transport' = [transport EXCEPT ![k].st = "closed", ![k].eof = how]
    /\ last' = NoLast
    /\ UNCHANGED <<ws, connected, receive_task, has_active_response, callbacks, sent,
                   caller, task, mode, adapter>>

\* ------------------------------------------------------ the receive task
\* Another task is already waiting for the next frame of handle k: recv()
\* raises there (websockets allows one recv at a time).
Clash(t, k) == \E u \in Tasks \ {t} : task[u].st = "recv" /\ task[u].tws = k

\* An observer call that leaves the payload behind.
C20_notify_without_payload(kind, arg, raises) ==
    IF callbacks[kind] = "None" THEN <<>>
    ELSE <<[kind |-> kind, cb |-> callbacks[kind], arg |-> <<>>, raised |-> raises]>>

\* The observer call of a kind, if one is registered: at most one.
Notify(kind, arg, raises) ==
    IF callbacks[kind] = "None" THEN <<>>
    ELSE <<[kind |-> kind, cb |-> callbacks[kind], arg |-> arg, raised |-> raises]>>

Raised(notes) == notes # <<>> /\ notes[1].raised

\* response.done handled without clearing the flag.
C5_response_done_keeps_flag(S, raises) ==
    [S EXCEPT !.pc = "ret", !.notes = Notify("response_done", <<>>, raises)]

\* The response.done branch of _handle_message: the flag is cleared before
\* the observer is called.
response_done(S, raises) ==
    [S EXCEPT !.pc = "ret", !.har = FALSE,
              !.notes = Notify("response_done", <<>>, raises)]

\* speech_started calling cancel_response() whatever the flag says.
C3_speech_started_always_cancels(S, raises) ==
    LET S1 == [S EXCEPT !.notes = Notify("speech_started", <<>>, raises)]
    IN  IF Raised(S1.notes) THEN [S1 EXCEPT !.pc = "ret"]
        ELSE cancel_response(S1)

\* The input_audio_buffer.speech_started branch of _handle_message: the
\* observer is called first; if it raises, the rest of the branch is skipped.
speech_started(S, raises) ==
    LET S1 == [S EXCEPT !.notes = Notify("speech_started", <<>>, raises)]
    IN  IF Raised(S1.notes) THEN [S1 EXCEPT !.pc = "ret"]
        ELSE IF S1.har THEN cancel_response(S1)
        ELSE [S1 EXCEPT !.pc = "ret"]

\* speech_stopped handled as if it ended the response.
C22_speech_stopped_clears_flag(S, raises) ==
    [S EXCEPT !.pc = "ret", !.har = FALSE,
              !.notes = Notify("speech_stopped", <<>>, raises)]

\* The input_audio_buffer.speech_stopped branch of _handle_message.
speech_stopped(S, raises) ==
    [S EXCEPT !.pc = "ret", !.notes = Notify("speech_stopped", <<>>, raises)]

\* _handle_message(message) up to its return ("ret") or to the first send
\* that suspends.  raises: the observer called raises an exception.
handle_message(S, f, raises) ==
    IF ~f.json THEN [S EXCEPT !.pc = "ret"]
    ELSE IF f.type = EVENT_RESPONSE_CREATED THEN
        [S EXCEPT !.pc = "ret", !.har = TRUE]
    ELSE IF f.type = EVENT_TYPE_RESPONSE_AUDIO_DELTA THEN
        IF f.delta # <<>> /\ callbacks["audio"] # "None" /\ b64decode(f.delta).ok
        THEN [S EXCEPT !.pc = "ret",
                       !.notes = Notify("audio", b64decode(f.delta).bytes, raises)]
        ELSE [S EXCEPT !.pc = "ret"]
    ELSE IF f.type = EVENT_TYPE_RESPONSE_AUDIO_TRANSCRIPT_DELTA THEN
        IF f.delta # <<>>
        THEN [S EXCEPT !.pc = "ret", !.notes = Notify("transcript", f.delta, raises)]
        ELSE [S EXCEPT !.pc = "ret"]
    ELSE IF f.type = EVENT_TYPE_RESPONSE_DONE THEN response_done(S, raises)
    ELSE IF f.type = EVENT_TYPE_INPUT_AUDIO_BUFFER_SPEECH_STARTED THEN
        speech_started(S, raises)
    ELSE IF f.type = EVENT_TYPE_INPUT_AUDIO_BUFFER_SPEECH_STOPPED THEN
        speech_stopped(S, raises)
    ELSE [S EXCEPT !.pc = "ret"]

\* The task t, its record rec, goes (back) to waiting for the next frame of
\* handle k, or its recv() raises at once and the except Exception clause of
\* _receive_messages runs.
await_next(t, k, rec) ==
    IF Clash(t, k)
    THEN /\ task' = [task EXCEPT ![t] = [NoTask EXCEPT !.st = "done"]]
         /\ connected' = FALSE
    ELSE /\ task' = [task EXCEPT ![t] = [rec EXCEPT !.st = "recv", !.tws = k]]
         /\ connected' = connected

\* The task's record once the handling of a frame ended.
Rested(rec) ==
    [rec EXCEPT !.frame = NoFrame, !.h0 = FALSE, !.a0 = FALSE, !.notes = <<>>,
                !.out = <<>>]

\* The handling by task t, its record rec, went to pc: it ended or it is
\* inside a send.
handled(t, rec, pc) ==
    IF pc = "ret"
    THEN /\ await_next(t, rec.tws, Rested(rec))
         /\ last' = Dispatched(rec)
    ELSE /\ task' = [task EXCEPT ![t] = [rec EXCEPT !.st = pc]]
         /\ connected' = connected
         /\ last' = NoLast

\* The task created by connect() starts running _receive_messages.
task_start(t) ==
    /\ TaskMayRun(t)
    /\ task[t].st = "created" /\ ~task[t].cancel
    /\ IF ws = None
       THEN task' = [task EXCEPT ![t] = [NoTask EXCEPT !.st = "done"]]
            /\ connected' = connected
       ELSE await_next(t, ws, task[t])
    /\ last' = NoLast
    /\ UNCHANGED <<ws, receive_task, has_active_response, callbacks, transport, sent,
                   caller, mode, adapter>>

\* Task.cancel() takes effect: CancelledError at the await the task is in
\* (or before it ever ran); _receive_messages logs it and ends.
task_cancelled(t) ==
    /\ TaskMayRun(t)
    /\ task[t].cancel /\ task[t].st \notin {"none", "done"}
    /\ task' = [task EXCEPT ![t] = [NoTask EXCEPT !.st = "done"]]
    /\ last' = NoLast
    /\ UNCHANGED <<ws, connected, receive_task, has_active_response, callbacks,
                   transport, sent, caller, mode, adapter>>

\* The iteration yielding the newest frame instead of the oldest.
C7_newest_message(inbox) == inbox[Len(inbox)]

\* The frame `async for message in self._ws` yields: the oldest not yet read.
next_message(inbox) == Head(inbox)

\* What the observers called may do: the callbacks of a provider append to
\* a list and put in an unbounded queue, which never raises.
Raises == IF mode = "adapters" THEN {FALSE} ELSE BOOLEAN

\* The providers once the observers in notes were called: a callback of
\* provider a puts what it got in a's queue, a text or chunk also in the
\* list of a's newest call.
Put(ad, notes) ==
    IF notes = <<>> \/ notes[1].cb \notin Adapters THEN ad
    ELSE LET a == notes[1].cb
             done == notes[1].kind = "response_done"
         IN  [ad EXCEPT ![a].queue = Append(@, [done |-> done, sends |-> ad[a].sends]),
                        ![a].got = IF done THEN @ ELSE TRUE]

\* `async for message in self._ws` yields the next frame and
\* _handle_message runs on it.
receive_message(t) ==
    /\ TaskMayRun(t)
    /\ task[t].st = "recv" /\ ~task[t].cancel
    /\ transport[task[t].tws].inbox # <<>>
    /\ \E raises \in Raises :
        LET k == task[t].tws
            f == next_message(transport[k].inbox)
            S == [pc |-> "entry", out |-> <<>>,
                  sent |-> [sent EXCEPT ![k] = Took(@, f)],
                  har |-> has_active_response, notes |-> <<>>]
            R == handle_message(S, f, raises)
            rec == [task[t] EXCEPT !.frame = f, !.h0 = has_active_response,
                                   !.a0 = Active /\ ws = k, !.notes = R.notes,
                                   !.out = R.out]
        IN  /\ transport' = [transport EXCEPT ![k].inbox = Tail(@)]
            /\ has_active_response' = R.har
            /\ sent' = R.sent
            /\ handled(t, rec, R.pc)
            /\ adapter' = Put(adapter, R.notes)
    /\ UNCHANGED <<ws, receive_task, callbacks, caller, mode>>

\* A send inside the cancel_response() of _handle_message returned.
receive_resume(t) ==
    /\ TaskMayRun(t)
    /\ task[t].st \in {"cancel_sent", "clear_sent"} /\ ~task[t].cancel
    /\ LET R == cancel_response([Body(task[t].out) EXCEPT !.pc = task[t].st])
       IN  /\ has_active_response' = R.har
           /\ sent' = R.sent
           /\ handled(t, [task[t] EXCEPT !.out = R.out], R.pc)
    /\ UNCHANGED <<ws, receive_task, callbacks, transport, caller, mode, adapter>>

\* The connection ended and no frame is left: `async for` ends (close frame
\* seen) or raises (the except Exception clause clears _connected).
receive_closed(t) ==
    /\ TaskMayRun(t)
    /\ task[t].st = "recv" /\ ~task[t].cancel
    /\ transport[task[t].tws].inbox = <<>>
    /\ transport[task[t].tws].eof # "none"
    /\ task' = [task EXCEPT ![t] = [NoTask EXCEPT !.st = "done"]]
    /\ connected' = IF transport[task[t].tws].eof = "err" THEN FALSE ELSE connected
    /\ last' = NoLast
    /\ UNCHANGED <<ws, receive_task, has_active_response, callbacks, transport, sent,
                   caller, mode, adapter>>

\* ------------------------------------------------------ the specification
Next ==
    \/ \E p \in Callers : connect_call(p)
    \/ \E p \in Callers : connect_established(p)
    \/ \E p \in Callers : connect_failed(p)
    \/ \E p \in Callers : connect_return(p)
    \/ \E p \in Callers : disconnect_call(p)
    \/ \E p \in Callers : disconnect_task_done(p)
    \/ \E p \in Callers : disconnect_closed(p)
    \/ \E p \in Callers : send_audio_call(p)
    \/ \E p \in Callers : send_audio_resume(p)
    \/ \E p \in Callers : commit_audio_call(p)
    \/ \E p \in Callers : commit_audio_resume(p)
    \/ \E p \in Callers : cancel_response_call(p)
    \/ \E p \in Callers : cancel_response_resume(p)
    \/ \E p \in Callers : send_text_call(p)
    \/ \E p \in Callers : send_text_resume(p)
    \/ \E p \in Callers : set_audio_callback(p)
    \/ \E p \in Callers : set_transcript_callback(p)
    \/ \E p \in Callers : set_response_done_callback(p)
    \/ \E p \in Callers : set_speech_started_callback(p)
    \/ \E p \in Callers : set_speech_stopped_callback(p)
    \/ \E k \in Transports : remote_frame(k)
    \/ \E k \in Transports : remote_close(k)
    \/ \E t \in Tasks : task_start(t)
    \/ \E t \in Tasks : task_cancelled(t)
    \/ \E t \in Tasks : receive_message(t)
    \/ \E t \in Tasks : receive_resume(t)
    \/ \E t \in Tasks : receive_closed(t)

\* The public methods are called one after the other; every send may wait,
\* and the receive task runs beside the caller.
Spec == Init /\ [][Next]_vars

\* The public methods are called one after the other and no send waits.
SpecSeq == InitSeq /\ [][Next]_vars

\* Any caller calls at any time; every send may wait.
SpecConcurrent == InitConcurrent /\ [][Next]_vars

\* The audio path alone: a connection is made, an audio observer is set,
\* audio is sent and audio deltas arrive.
NextCodec ==
    \/ \E p \in Callers : connect_call(p)
    \/ \E p \in Callers : connect_established(p)
    \/ \E p \in Callers : connect_return(p)
    \/ \E p \in Callers : send_audio_call(p)
    \/ \E p \in Callers : send_audio_resume(p)
    \/ \E p \in Callers : set_audio_callback(p)
    \/ \E k \in Transports : remote_frame(k)
    \/ \E t \in Tasks : task_start(t)
    \/ \E t \in Tasks : receive_message(t)

SpecCodec == InitCodec /\ [][NextCodec]_vars

\* The responses alone: one caller connects, then any caller commits audio,
\* sends text or cancels at any time, beside the receive task.
NextResponses ==
    \/ connect_call("c1")
    \/ connect_established("c1")
    \/ connect_return("c1")
    \/ \E p \in Callers : commit_audio_call(p)
    \/ \E p \in Callers : commit_audio_resume(p)
    \/ \E p \in Callers : send_text_call(p)
    \/ \E p \in Callers : send_text_resume(p)
    \/ \E p \in Callers : cancel_response_call(p)
    \/ \E p \in Callers : cancel_response_resume(p)
    \/ \E k \in Transports : remote_frame(k)
    \/ \E t \in Tasks : task_start(t)
    \/ \E t \in Tasks : receive_message(t)
    \/ \E t \in Tasks : receive_resume(t)

SpecResponses == InitResponses /\ [][NextResponses]_vars

\* The requests for a response and their answers: the caller connects,
\* commits audio and sends text, the remote answers each response.create.
NextAnswers ==
    \/ \E p \in Callers : connect_call(p)
    \/ \E p \in Callers : connect_established(p)
    \/ \E p \in Callers : connect_return(p)
    \/ \E p \in Callers : commit_audio_call(p)
    \/ \E p \in Callers : commit_audio_resume(p)
    \/ \E p \in Callers : send_text_call(p)
    \/ \E p \in Callers : send_text_resume(p)
    \/ \E k \in Transports : remote_frame(k)
    \/ \E t \in Tasks : task_start(t)
    \/ \E t \in Tasks : receive_message(t)

\* The event loop resumes every coroutine that can go on (a send that
\* returned, a task created, a frame that arrived), and the remote answers;
\* nothing makes a caller call again.
SpecAnswers ==
    /\ InitAnswers /\ [][NextAnswers]_vars
    /\ WF_vars(\E p \in Callers : connect_established(p))
    /\ WF_vars(\E p \in Callers : connect_return(p))
    /\ WF_vars(\E p \in Callers : commit_audio_resume(p))
    /\ WF_vars(\E p \in Callers : send_text_resume(p))
    /\ WF_vars(\E k \in Transports : remote_frame(k))
    /\ WF_vars(\E t \in Tasks : task_start(t))
    /\ WF_vars(\E t \in Tasks : receive_message(t))

\* The connections alone: any caller connects or disconnects at any time,
\* and the remote may end a connection.
NextConnects ==
    \/ \E p \in Callers : connect_call(p)
    \/ \E p \in Callers : connect_established(p)
    \/ \E p \in Callers : connect_failed(p)
    \/ \E p \in Callers : connect_return(p)
    \/ \E p \in Callers : disconnect_call(p)
    \/ \E p \in Callers : disconnect_task_done(p)
    \/ \E p \in Callers : disconnect_closed(p)
    \/ \E k \in Transports : remote_close(k)
    \/ \E t \in Tasks : task_start(t)
    \/ \E t \in Tasks : task_cancelled(t)
    \/ \E t \in Tasks : receive_closed(t)

SpecConnects == InitConnects /\ [][NextConnects]_vars

\* The providers: their methods are called one after the other, beside the
\* receive task and the remote.
NextAdapters ==
    \/ \E p \in Callers : async_process_audio_stream_call(p)
    \/ \E p \in Callers : stt_connected(p)
    \/ \E p \in Callers : stt_send_audio(p)
    \/ \E p \in Callers : stt_commit_audio(p)
    \/ \E p \in Callers : stt_get(p)
    \/ \E p \in Callers : stt_timeout(p)
    \/ \E p \in Callers : async_get_tts_audio_call(p)
    \/ \E p \in Callers : tts_connected(p)
    \/ \E p \in Callers : tts_get(p)
    \/ \E p \in Callers : tts_timeout(p)
    \/ \E p \in Callers : connect_established(p)
    \/ \E p \in Callers : connect_failed(p)
    \/ \E p \in Callers : connect_return(p)
    \/ \E p \in Callers : send_audio_resume(p)
    \/ \E p \in Callers : commit_audio_resume(p)
    \/ \E p \in Callers : send_text_resume(p)
    \/ \E k \in Transports : remote_frame(k)
    \/ \E t \in Tasks : task_start(t)
    \/ \E t \in Tasks : receive_message(t)

SpecAdapters == InitAdapters /\ [][NextAdapters]_vars

\* ------------------------------------------------------------ the claims
\* A public method returned in the last step.
Ended(op) == last.kind = "call" /\ last.op = op

\* _handle_message returned in the last step, for a frame of this type.
Handled(type) == last.kind = "dispatch" /\ last.frame.json /\ last.frame.type = type

\* No receive task is running.
NoLoop == \A t \in Tasks : task[t].st \in {"none", "done"}

\* C1: a commit_audio() call made on an Active connection, after any calls of
\* send_audio, transmits input_audio_buffer.commit and then exactly one
\* response.create if _has_active_response was false at the call and none if
\* it was true; when it returns _has_active_response is true.
C1_CommitAudio ==
    (Ended("commit_audio") /\ last.a0) =>
        /\ last.out = IF last.h0 THEN <<CommitAudio>> ELSE <<CommitAudio, CreateResponse>>
        /\ has_active_response

C1_Witness ==
    /\ Ended("commit_audio") /\ last.a0 /\ ~last.h0
    /\ last.out = <<CommitAudio, CreateResponse>>
    /\ has_active_response

\* C2: a speech_started frame dispatched on an Active connection while
\* _has_active_response is true results in exactly one response.cancel and
\* then exactly one input_audio_buffer.clear, the observer having been called
\* first, all within the handling of that frame; afterwards
\* _has_active_response is false.
C2_SpeechStartedCancels ==
    (Handled(EVENT_TYPE_INPUT_AUDIO_BUFFER_SPEECH_STARTED) /\ last.a0 /\ last.h0) =>
        /\ last.out = <<CancelResponse, ClearAudioBuffer>>
        /\ ~has_active_response

\* C3 (as amended): a speech_started frame dispatched while
\* _has_active_response is false transmits no command at all: neither
\* response.cancel nor input_audio_buffer.clear; the flag stays false.
C3_SpeechStartedIdle ==
    (Handled(EVENT_TYPE_INPUT_AUDIO_BUFFER_SPEECH_STARTED) /\ ~last.h0) =>
        /\ last.out = <<>>
        /\ ~has_active_response

C3_Witness ==
    /\ Handled(EVENT_TYPE_INPUT_AUDIO_BUFFER_SPEECH_STARTED) /\ ~last.h0 /\ last.a0
    /\ last.notes # <<>> /\ ~Raised(last.notes)
    /\ last.out = <<>>

\* C3 as first stated: such a frame results in exactly one
\* input_audio_buffer.clear and no response.cancel.
C3_Original ==
    (Handled(EVENT_TYPE_INPUT_AUDIO_BUFFER_SPEECH_STARTED) /\ ~last.h0 /\ last.a0) =>
        last.out = <<ClearAudioBuffer>>

\* C4: a send_text(text) call made on an Active connection transmits
\* conversation.item.create with the text and then exactly one
\* response.create if _has_active_response was false at the call and none if
\* it was true; when it returns _has_active_response is true.
C4_SendText ==
    (Ended("send_text") /\ last.a0) =>
        /\ \E text \in Texts :
            last.out = IF last.h0 THEN <<CreateConversationItem(text)>>
                       ELSE <<CreateConversationItem(text), CreateResponse>>
        /\ has_active_response

C4_Witness ==
    /\ Ended("send_text") /\ last.a0 /\ ~last.h0
    /\ Len(last.out) = 2 /\ last.out[1].type = EVENT_TYPE_CONVERSATION_ITEM_CREATE
    /\ last.out[1].data \in Texts /\ last.out[2] = CreateResponse
    /\ has_active_response

\* C5: after response.created is dispatched _has_active_response is true,
\* the audio and transcript deltas that follow leave it as it is, and after
\* response.done is dispatched it is false and the response-done observer, if
\* one is registered, was called exactly once for that frame.
C5_ResponseLifecycle ==
    /\ Handled(EVENT_RESPONSE_CREATED) => has_active_response /\ last.notes = <<>>
    /\ Handled(EVENT_TYPE_RESPONSE_AUDIO_DELTA) => has_active_response = last.h0
    /\ Handled(EVENT_TYPE_RESPONSE_AUDIO_TRANSCRIPT_DELTA) => has_active_response = last.h0
    /\ Handled(EVENT_TYPE_RESPONSE_DONE) =>
        /\ ~has_active_response
        /\ callbacks["response_done"] # "None" =>
            /\ Len(last.notes) = 1
            /\ last.notes[1].kind = "response_done"
            /\ last.notes[1].cb = callbacks["response_done"]

C5_Witness ==
    /\ Handled(EVENT_TYPE_RESPONSE_DONE) /\ last.h0 /\ ~has_active_response
    /\ Len(last.notes) = 1 /\ last.notes[1].kind = "response_done"

\* C6: a cancel_response() call made on an Active connection transmits
\* exactly one input_audio_buffer.clear; before it, exactly one
\* response.cancel if and only if _has_active_response was true at the call;
\* when it returns _has_active_response is false.
C6_CancelResponse ==
    (Ended("cancel_response") /\ last.a0) =>
        /\ last.out = IF last.h0 THEN <<CancelResponse, ClearAudioBuffer>>
                      ELSE <<ClearAudioBuffer>>
        /\ ~has_active_response

C6_Witness ==
    /\ Ended("cancel_response") /\ last.a0 /\ last.h0
    /\ last.out = <<CancelResponse, ClearAudioBuffer>>
    /\ ~has_active_response

\* The types _handle_message has a branch for.
KnownTypes ==
    {EVENT_RESPONSE_CREATED, EVENT_TYPE_RESPONSE_AUDIO_DELTA,
     EVENT_TYPE_RESPONSE_AUDIO_TRANSCRIPT_DELTA, EVENT_TYPE_RESPONSE_DONE,
     EVENT_TYPE_INPUT_AUDIO_BUFFER_SPEECH_STARTED,
     EVENT_TYPE_INPUT_AUDIO_BUFFER_SPEECH_STOPPED, EVENT_ERROR}

\* A frame that is not parseable, of a type without a branch, or an audio
\* delta without its delta or with text that is not base64.
Dropped(f) ==
    \/ ~f.json
    \/ f.type \notin KnownTypes
    \/ f.type = EVENT_TYPE_RESPONSE_AUDIO_DELTA /\ (f.delta = <<>> \/ ~b64decode(f.delta).ok)

\* Task t takes a frame from its connection in this step.
Receives(t) ==
    /\ task[t].st = "recv"
    /\ transport[task[t].tws].inbox # <<>>
    /\ transport' = [transport EXCEPT ![task[t].tws].inbox = Tail(@)]

\* C7: the receive loop takes the frames in arrival order, one at a time; a
\* frame that is malformed or of an unrecognized type calls no observer,
\* transmits nothing, changes neither _has_active_response nor the connection
\* state, and leaves the loop waiting for the next frame.
C7_DroppedFrames ==
    [][\A t \in Tasks : Receives(t) =>
        LET f == Head(transport[task[t].tws].inbox)
        IN  /\ \/ last'.kind = "dispatch" /\ last'.frame = f
               \/ task'[t].st \in SendPcs /\ task'[t].frame = f
            /\ Dropped(f) =>
                /\ last'.kind = "dispatch" /\ last'.out = <<>> /\ last'.notes = <<>>
                /\ task'[t].st = "recv" /\ task'[t].tws = task[t].tws
                /\ has_active_response' = has_active_response
                /\ connected' = connected /\ ws' = ws /\ sent' = sent]_vars

C7_Witness ==
    /\ last.kind = "dispatch" /\ Dropped(last.frame)
    /\ \E t \in Tasks :
        /\ task[t].st = "recv"
        /\ transport[task[t].tws].inbox # <<>>
        /\ ~Dropped(Head(transport[task[t].tws].inbox))

\* An observer is called in this step.
Notifies ==
    \E t \in Tasks :
        /\ task[t].st = "recv"
        /\ \/ last'.kind = "dispatch" /\ last'.notes # <<>>
           \/ task'[t].notes # <<>>

\* C8: a disconnect() called on a connected client returns only after the
\* receive task has ended; ws.close() is called only after it ended; and once
\* disconnect() has returned (the handle is dropped) no observer is called.
C8_Disconnect ==
    /\ []((Ended("disconnect") /\ last.c0) => NoLoop)
    /\ [][(\E k \in Transports : transport'[k].closes > transport[k].closes) => NoLoop]_vars
    /\ [][ws = None => ~Notifies]_vars

C8_Witness ==
    /\ Ended("disconnect") /\ last.c0 /\ last.t0 # None
    /\ NoLoop /\ ws = None /\ ~connected

\* C9: connect() on an Active client opens nothing and transmits nothing;
\* every other connect() that returns normally opened one connection and
\* transmitted exactly one session.update on it, the first command on it.
C9_Connect ==
    (Ended("connect") /\ ~last.exc) =>
        IF last.a0
        THEN last.new = None /\ last.out = <<>>
        ELSE /\ last.new # None
             /\ last.out = <<UpdateSession>>
             /\ sent[last.new].first = EVENT_TYPE_SESSION_UPDATE
             /\ sent[last.new].updates = 1

\* C10: when websockets.connect raises, connect() raises, _connected is
\* false, no handle is held, no receive task is running and nothing was
\* transmitted.
C10_ConnectFailure ==
    (last.kind = "call" /\ last.op = "connect" /\ last.new = None /\ ~last.c0) =>
        /\ last.exc
        /\ ~connected
        /\ ws = None
        /\ NoLoop
        /\ last.out = <<>>

\* C11: when websockets.connect returned a handle but the send of
\* session.update failed, connect() raises and the client is disconnected:
\* _connected is false, no receive task stays running and no handle is kept.
C11_FirstSendFails ==
    (Ended("connect") /\ last.new # None /\ last.out = <<>>) =>
        /\ last.exc
        /\ ~connected
        /\ NoLoop
        /\ ws = None

\* C12: when the receive task finds its connection ended, by a close frame
\* or by an error, and not by a local disconnect(), the task ends and
\* _connected becomes false; and a connection is opened only inside a
\* connect() call.
C12_TransportEnded ==
    /\ [][\A t \in Tasks :
            (/\ task[t].st = "recv" /\ ~task[t].cancel
             /\ transport[task[t].tws].eof # "none"
             /\ task'[t].st = "done") => ~connected']_vars
    /\ [][\A k \in Transports :
            (transport[k].st # "open" /\ transport'[k].st = "open") =>
                \E p \in Callers : caller[p].op = "connect" /\ caller[p].pc = "connecting"]_vars

\* The methods that transmit commands on an established connection.
SendOps == {"send_audio", "commit_audio", "send_text", "cancel_response"}

\* C13: a send_audio, commit_audio, send_text or cancel_response call made
\* while the client is not Active (not connected, or its receive task has
\* seen the connection end) transmits nothing, raises nothing and leaves
\* _has_active_response and the connection state as they were.
C13_NotActive ==
    (last.kind = "call" /\ last.op \in SendOps /\ (~connected_property \/ NoLoop)) =>
        /\ last.out = <<>>
        /\ ~last.exc
        /\ has_active_response = last.h0

\* The kind of observer _handle_message calls for a frame of this type.
ObserverOf(type) ==
    IF type = EVENT_TYPE_RESPONSE_AUDIO_DELTA THEN "audio"
    ELSE IF type = EVENT_TYPE_RESPONSE_AUDIO_TRANSCRIPT_DELTA THEN "transcript"
    ELSE IF type = EVENT_TYPE_RESPONSE_DONE THEN "response_done"
    ELSE IF type = EVENT_TYPE_INPUT_AUDIO_BUFFER_SPEECH_STARTED THEN "speech_started"
    ELSE IF type = EVENT_TYPE_INPUT_AUDIO_BUFFER_SPEECH_STOPPED THEN "speech_stopped"
    ELSE "none"

\* The observer calls made for the frame task t takes in this step.
NotesOf(t) == IF task'[t].st \in SendPcs THEN task'[t].notes ELSE last'.notes

\* C14: a setter leaves the callback it was given in the slot of its kind,
\* whatever the slot held, and touches no other slot; a frame is delivered at
\* most once, to the callback the slot of its kind holds when the frame is
\* handled, and to no other.
C14_Observers ==
    /\ [](last.kind = "set" => callbacks[last.op] = last.notes[1].cb)
    /\ [][last'.kind = "set" =>
            \A k \in Kinds \ {last'.op} : callbacks'[k] = callbacks[k]]_vars
    /\ [][\A t \in Tasks : Receives(t) =>
            LET f == Head(transport[task[t].tws].inbox)
                n == NotesOf(t)
            IN  /\ Len(n) <= 1
                /\ n # <<>> =>
                    /\ n[1].kind = ObserverOf(f.type)
                    /\ n[1].cb = callbacks[n[1].kind]]_vars

C14_Witness ==
    /\ last.kind = "dispatch" /\ last.notes # <<>>
    /\ last.notes[1].cb = "g" /\ callbacks[last.notes[1].kind] = "g"

\* C15: disconnect() on a client that is not connected changes nothing; after
\* any disconnect(), the first or a repeated one, _connected is false, no
\* handle is held and no receive task is running; and no connection has
\* ws.close() called on it twice.
C15_DisconnectIdempotent ==
    /\ [](Ended("disconnect") => ~connected /\ ws = None /\ NoLoop)
    /\ [](\A k \in Transports : transport[k].closes <= 1)
    /\ [][(last'.kind = "call" /\ last'.op = "disconnect" /\ ~last'.c0) =>
            UNCHANGED <<ws, connected, receive_task, has_active_response, callbacks,
                        transport, sent, task>>]_vars

\* C16 (as amended): send_audio(b) on an Active connection writes one
\* input_audio_buffer.append whose text decodes to exactly b, for every byte
\* string b; a response.output_audio.delta whose text is the base64 of a
\* non-empty b gives the registered audio observer one call with exactly b;
\* a delta with empty text gives it no call.
C16_RoundTrip ==
    /\ (Ended("send_audio") /\ last.a0) =>
            /\ Len(last.out) = 1
            /\ last.out[1].type = EVENT_TYPE_INPUT_AUDIO_BUFFER_APPEND
            /\ b64decode(last.out[1].data) = [ok |-> TRUE, bytes |-> last.arg]
    /\ \A b \in ByteStrings \ {<<>>} :
            (/\ Handled(EVENT_TYPE_RESPONSE_AUDIO_DELTA)
             /\ last.frame.delta = b64encode(b)
             /\ callbacks["audio"] # "None") =>
                /\ Len(last.notes) = 1
                /\ last.notes[1].kind = "audio" /\ last.notes[1].arg = b
    /\ (Handled(EVENT_TYPE_RESPONSE_AUDIO_DELTA) /\ last.frame.delta = <<>>) =>
            last.notes = <<>>

\* The text "AAEC" arrived and the observer was given the bytes 0, 1, 2.
C16_Witness ==
    /\ Handled(EVENT_TYPE_RESPONSE_AUDIO_DELTA)
    /\ last.frame.delta = <<0, 0, 4, 2>>
    /\ last.notes # <<>> /\ last.notes[1].arg = <<0, 1, 2>>

\* C16 as stated: the same for every byte string b, the empty one included.
C16_Original ==
    /\ (Ended("send_audio") /\ last.a0) =>
            /\ Len(last.out) = 1
            /\ b64decode(last.out[1].data) = [ok |-> TRUE, bytes |-> last.arg]
    /\ \A b \in ByteStrings :
            (/\ Handled(EVENT_TYPE_RESPONSE_AUDIO_DELTA)
             /\ last.frame.delta = b64encode(b)
             /\ callbacks["audio"] # "None") =>
                /\ Len(last.notes) = 1
                /\ last.notes[1].kind = "audio" /\ last.notes[1].arg = b

\* C17: once the response.done that answers the last response.create written
\* to the connection was handled, and no response.create was written and no
\* response.created handled since, _has_active_response is false, also
\* when commit_audio() or send_text() was inside the send of that
\* response.create while the answer was handled.
C17_CheckThenSet ==
    \A k \in Transports :
        (ws = k /\ connected /\ sent[k].asked = "done") => ~has_active_response

\* C18: on one connection at most one response.create is written between
\* two points at which the response becomes inactive, and two calls of
\* commit_audio() or send_text() that both began with
\* _has_active_response false do not both write a response.create.
Asks == {"commit_audio", "send_text"}
Asked(p) ==
    /\ caller[p].op \in Asks /\ ~caller[p].h0
    /\ \E i \in 1..Len(caller[p].out) : caller[p].out[i] = CreateResponse
C18_NoDuplicateCreate ==
    /\ \A k \in Transports : sent[k].creates <= 1
    /\ \A p \in Callers : \A q \in Callers \ {p} : ~(Asked(p) /\ Asked(q))

\* C19: in every state, also when two callers are inside connect() at once
\* and when connect() follows a close by the remote, at most one receive
\* task is running _receive_messages, at most one connection is open, and
\* every open connection is the one self._ws holds.
Running == {t \in Tasks : task[t].st \notin {"none", "created", "done"}}
Open == {k \in Transports : transport[k].st = "open"}
C19_SingleConnection ==
    /\ Cardinality(Running) <= 1
    /\ Cardinality(Open) <= 1
    /\ \A k \in Open : ws = k

\* Task t, waiting for a frame, has _handle_message run in this step.
Dispatches(t) ==
    /\ task[t].st = "recv"
    /\ \/ task'[t].st \in SendPcs
       \/ last'.kind = "dispatch" /\ \A u \in Tasks : task[u].st \notin SendPcs

\* The frame handled in this step by task t.
FrameOf(t) == IF task'[t].st \in SendPcs THEN task'[t].frame ELSE last'.frame

\* The frame task t reads is the oldest one in flight, and it is gone after.
InOrder(t) ==
    LET k == task[t].tws
    IN  /\ transport[k].inbox # <<>>
        /\ FrameOf(t) = Head(transport[k].inbox)
        /\ transport'[k].inbox = Tail(transport[k].inbox)

\* A delta that can be decoded (all: the empty one too) gives the registered
\* observer of its kind one call, with the payload.
Delivers(t, all) ==
    LET f == FrameOf(t)
        n == NotesOf(t)
    IN  /\ (/\ f.json /\ f.type = EVENT_TYPE_RESPONSE_AUDIO_DELTA
            /\ b64decode(f.delta).ok /\ (all \/ f.delta # <<>>)
            /\ callbacks["audio"] # "None") =>
                /\ Len(n) = 1 /\ n[1].kind = "audio"
                /\ n[1].arg = b64decode(f.delta).bytes
        /\ (/\ f.json /\ f.type = EVENT_TYPE_RESPONSE_AUDIO_TRANSCRIPT_DELTA
            /\ (all \/ f.delta # <<>>)
            /\ callbacks["transcript"] # "None") =>
                /\ Len(n) = 1 /\ n[1].kind = "transcript"
                /\ n[1].arg = f.delta

Handling == {t \in Tasks : task[t].frame # NoFrame}

InFlight(k) == sent[k].created \/ sent[k].creates > 0
C21_ActiveResponse ==
    \A k \in Transports :
        (ws = k /\ connected) => (has_active_response <=> InFlight(k))

\* C22: handling an audio delta, a transcript delta, speech_stopped, an error
\* or a frame of an unrecognized type leaves _has_active_response as it was
\* and writes no command; after an error frame the task waits for the next
\* frame and _connected is as before.
NoEffectTypes ==
    {EVENT_TYPE_RESPONSE_AUDIO_DELTA, EVENT_TYPE_RESPONSE_AUDIO_TRANSCRIPT_DELTA,
     EVENT_TYPE_INPUT_AUDIO_BUFFER_SPEECH_STOPPED, EVENT_ERROR, EVENT_SESSION_CREATED}
C22_NoEffect ==
    [][\A t \in Tasks :
        (Dispatches(t) /\ FrameOf(t).json /\ FrameOf(t).type \in NoEffectTypes) =>
            /\ has_active_response' = has_active_response
            /\ sent' = sent
            /\ last'.kind = "dispatch" /\ last'.out = <<>>
            /\ FrameOf(t).type = EVENT_ERROR =>
                /\ task'[t].st = "recv" /\ task'[t].tws = task[t].tws
                /\ connected' = connected /\ ws' = ws]_vars

\* An error frame was handled while a response was active: the flag is
\* still true and the task waits for the next frame.
C22_Witness ==
    /\ Handled(EVENT_ERROR) /\ last.h0 /\ has_active_response /\ connected
    /\ \E t \in Tasks : task[t].st = "recv"

\* C23: when a disconnect() returns, the first or one called while another
\* disconnect() still awaits the task it cancelled, no receive task that a
\* disconnect() has cancelled is still running.
C23_DisconnectComplete ==
    Ended("disconnect") =>
        \A t \in Tasks : task[t].st \in {"none", "done"} \/ ~task[t].cancel

\* C24: when a connect() that opened a connection returns, whatever happened
\* on the connections before it, _has_active_response is false (so that the
\* first commit_audio() or send_text() on the new connection asks for a
\* response).
C24_FreshResponseState ==
    (Ended("connect") /\ ~last.exc /\ last.new # None) => ~has_active_response

\* The frame task t reads in this step is the response.done of a response
\* that cancel_response() cancelled, read after the response.create of a
\* newer response was written, whose own response.done is still to come.
LateDone(t) ==
    /\ Dispatches(t)
    /\ sent[task[t].tws].asked = "second" /\ sent[task[t].tws].ahead = 1

\* C25: handling the late response.done of a cancelled response, once a
\* newer response was asked for, does not clear _has_active_response and
\* calls no response-done observer.
C25_LateResponseDone ==
    [][\A t \in Tasks : LateDone(t) =>
            /\ has_active_response' = has_active_response
            /\ NotesOf(t) = <<>>]_vars

\* C26: a speech_started frame handled on an Active connection while
\* _has_active_response is true has response.cancel written, also when the
\* speech-started observer raised.
C26_CancelDespiteObserver ==
    (/\ Handled(EVENT_TYPE_INPUT_AUDIO_BUFFER_SPEECH_STARTED)
     /\ last.h0 /\ last.a0 /\ Raised(last.notes)) =>
        \E i \in 1..Len(last.out) : last.out[i] = CancelResponse

\* C27: at most one response.cancel is written for one active response,
\* that is between two points at which a response becomes active (a
\* response.create is written or a response.created handled), also when a
\* cancel_response() is inside its send while speech_started is handled or
\* another cancel_response() is called.
C27_OneCancel == \A k \in Transports : sent[k].cancels <= 1

\* C28: whenever _has_active_response is true it is false again later,
\* also when the send of response.create failed inside _send_event or the
\* remote answered the response.create with an error.
C28_FlagClears == has_active_response ~> ~has_active_response

\* C29: a call of the STT or TTS provider returns its success result only on
\* a response.done that was dispatched after that call got to its own
\* commit_audio() or send_text(): the None it takes from the queue was never
\* put before that.
C29_OwnCompletion ==
    \A a \in Adapters : (Ended(a) /\ ~last.exc) => ~adapter[a].stale

====
